---- MODULE Spec2Model ----
(***************************************************************************)
(* cargo-semver-bump: the commit type classifier                           *)
(* (src/src/conventional_commit.rs) and the version decision engine        *)
(* (src/src/version_update_handler.rs, duplicated in src/src/main.rs).     *)
(*                                                                         *)
(* A string is a sequence of one-character strings, so that letter case,   *)
(* whitespace and punctuation are visible to the classifier.  A Version is *)
(* a record of three naturals (semver::Version with empty pre-release and  *)
(* build metadata).                                                        *)
(***************************************************************************)
EXTENDS Integers, Sequences, FiniteSets, TLC

VARIABLES pc, ty_, classified, previous, current, commit, type_, new_candidate, outcome

vars == <<pc, ty_, classified, previous, current, commit, type_, new_candidate, outcome>>

(***************************************************************************)
(* Bounds                                                                  *)
(***************************************************************************)
\* Largest version component of an input version.
MaxComp == 4
\* Longest token of the exhaustively enumerated short tokens.
MaxTokLen == 3

(***************************************************************************)
(* Characters                                                              *)
(***************************************************************************)
Lower == <<"a","b","c","d","e","f","g","h","i","j","k","l","m",
           "n","o","p","q","r","s","t","u","v","w","x","y","z">>

Upper == <<"A","B","C","D","E","F","G","H","I","J","K","L","M",
           "N","O","P","Q","R","S","T","U","V","W","X","Y","Z">>

IsUpper(c) == \E i \in 1..Len(Upper) : Upper[i] = c

IsLower(c) == \E i \in 1..Len(Lower) : Lower[i] = c

to_ascii_lowercase(c) ==
    IF IsUpper(c) THEN Lower[CHOOSE i \in 1..Len(Upper) : Upper[i] = c] ELSE c

to_ascii_uppercase(c) ==
    IF IsLower(c) THEN Upper[CHOOSE i \in 1..Len(Lower) : Lower[i] = c] ELSE c

\* str::to_lowercase on an ASCII string.
RECURSIVE to_lowercase(_)
to_lowercase(s) ==
    IF s = <<>> THEN <<>>
    ELSE <<to_ascii_lowercase(Head(s))>> \o to_lowercase(Tail(s))

(***************************************************************************)
(* enum ConventionalCommitType: the variant identifiers as written         *)
(***************************************************************************)
Build    == <<"B","u","i","l","d">>
Chore    == <<"C","h","o","r","e">>
Ci       == <<"C","i">>
Docs     == <<"D","o","c","s">>
Feat     == <<"F","e","a","t">>
Fix      == <<"F","i","x">>
Perf     == <<"P","e","r","f">>
Refactor == <<"R","e","f","a","c","t","o","r">>
Revert   == <<"R","e","v","e","r","t">>
Style    == <<"S","t","y","l","e">>
Test     == <<"T","e","s","t">>
Custom   == <<"C","u","s","t","o","m">>

\* The variants EnumString parses; Custom is #[strum(disabled)].
EnabledVariants ==
    {Build, Chore, Ci, Docs, Feat, Fix, Perf, Refactor, Revert, Style, Test}

\* A unit variant, and Custom(String).
Unit(v) == [variant |-> v, raw |-> <<>>]

CustomOf(s) == [variant |-> Custom, raw |-> s]

\* #[strum(serialize_all = "snake_case")]: the string a variant identifier is
\* serialized as: every upper-case letter starts a word, words are joined by
\* "_" and lower-cased.
RECURSIVE SnakeFrom(_, _)
SnakeFrom(name, i) ==
    IF i > Len(name) THEN <<>>
    ELSE (IF IsUpper(name[i])
            THEN (IF i > 1 THEN <<"_">> ELSE <<>>) \o <<to_ascii_lowercase(name[i])>>
            ELSE <<name[i]>>)
         \o SnakeFrom(name, i + 1)

snake_case(name) == SnakeFrom(name, 1)

\* The serialization of every enabled variant, as the derive computes it once.
Serialized == [v \in EnabledVariants |-> snake_case(v)]

Ok(v) == [ok |-> TRUE, value |-> v]

VariantNotFound == [ok |-> FALSE, value |-> <<>>]

\* Mutant: #[strum(ascii_case_insensitive)] matching.
from_str_case_insensitive(s) ==
    IF \E v \in EnabledVariants : Serialized[v] = to_lowercase(s)
      THEN Ok(Unit(CHOOSE v \in EnabledVariants : Serialized[v] = to_lowercase(s)))
      ELSE VariantNotFound

\* The derived FromStr: the input is matched, as given, against the
\* serialization of each enabled variant.
from_str(s) ==
    IF \E v \in EnabledVariants : Serialized[v] = s
      THEN Ok(Unit(CHOOSE v \in EnabledVariants : Serialized[v] = s))
      ELSE VariantNotFound

\* Mutant: the custom token is stored normalized instead of as given.
new_normalizing(t) ==
    IF from_str(t).ok THEN from_str(t).value ELSE CustomOf(to_lowercase(t))

\* ConventionalCommitType::new
new(t) ==
    IF from_str(t).ok THEN from_str(t).value ELSE CustomOf(t)

\* impl From<&ConventionalCommit> for ConventionalCommitType
From(c) == new(c.ty)

(***************************************************************************)
(* semver::Version restricted to major.minor.patch                         *)
(***************************************************************************)
\* Version::new
VersionNew(major, minor, patch) == [major |-> major, minor |-> minor, patch |-> patch]

\* Mutant: the comparison looks at the minor component before the major one.
VersionLtMinorFirst(a, b) ==
    \/ a.minor < b.minor
    \/ a.minor = b.minor /\ a.major < b.major
    \/ a.minor = b.minor /\ a.major = b.major /\ a.patch < b.patch

\* Mutant: the comparison ignores the patch component.
VersionLtNoPatch(a, b) ==
    \/ a.major < b.major
    \/ a.major = b.major /\ a.minor < b.minor

\* self.current < new_candidate: Ord of Version, major, then minor, then patch.
VersionLt(a, b) ==
    \/ a.major < b.major
    \/ a.major = b.major /\ a.minor < b.minor
    \/ a.major = b.major /\ a.minor = b.minor /\ a.patch < b.patch

(***************************************************************************)
(* VersionUpdateHandler::get_next_version                                  *)
(***************************************************************************)
\* Mutant: the guard forgets that 0.x versions are exempt.
BreakingRuleAnyMajor(c, candidate) == c.is_breaking_change

\* The guard of the first match arm.
BreakingRule(c, candidate) == c.is_breaking_change /\ candidate.major # 0

\* Mutant: the major component is bumped in place, minor and patch survive.
BreakingCandidateInPlace(candidate) ==
    [candidate EXCEPT !.major = candidate.major + 1]

\* Version::new(candidate.major + 1, 0, 0)
BreakingCandidate(candidate) == VersionNew(candidate.major + 1, 0, 0)

\* Mutant: the fix arm resets minor as well.
FixCandidateResetsMinor(candidate) ==
    [candidate EXCEPT !.minor = 0, !.patch = candidate.patch + 1]

\* candidate.patch += 1
FixCandidate(candidate) == [candidate EXCEPT !.patch = candidate.patch + 1]

\* Mutant: the feat arm forgets candidate.patch = 0.
FeatCandidateKeepsPatch(candidate) ==
    [candidate EXCEPT !.minor = candidate.minor + 1]

\* candidate.minor += 1; candidate.patch = 0
FeatCandidate(candidate) ==
    [candidate EXCEPT !.minor = candidate.minor + 1, !.patch = 0]

\* Mutant: perf commits are treated like fixes.
NewCandidatePerfBumps(prev, c) ==
    IF BreakingRule(c, prev) THEN BreakingCandidate(prev)
    ELSE IF From(c) \in {Unit(Fix), Unit(Perf)} THEN FixCandidate(prev)
    ELSE IF From(c) = Unit(Feat) THEN FeatCandidate(prev)
    ELSE prev

\* let new_candidate = match type_ { ... }, with candidate = previous.clone()
NewCandidate(prev, c) ==
    IF BreakingRule(c, prev) THEN BreakingCandidate(prev)
    ELSE IF From(c) = Unit(Fix) THEN FixCandidate(prev)
    ELSE IF From(c) = Unit(Feat) THEN FeatCandidate(prev)
    ELSE prev

Patch(v) == [kind |-> "Patch", new |-> v]

ManualChanged(prev, cur) == [kind |-> "ManualChanged", previous |-> prev, current |-> cur]

VersionUpdateTooWeak(expected, actual) ==
    [kind |-> "VersionUpdateTooWeak", expected_at_least |-> expected, actual |-> actual]

\* Mutant: an unedited manifest is re-written with the previous version.
DecidePatchesPrevious(prev, cur, candidate) ==
    IF cur # prev
      THEN IF VersionLt(cur, candidate)
             THEN VersionUpdateTooWeak(candidate, cur)
             ELSE ManualChanged(prev, cur)
      ELSE Patch(prev)

\* let is_manual_changed = self.current != self.previous; if ... { } else { }
Decide(prev, cur, candidate) ==
    IF cur # prev
      THEN IF VersionLt(cur, candidate)
             THEN VersionUpdateTooWeak(candidate, cur)
             ELSE ManualChanged(prev, cur)
      ELSE Patch(candidate)

(***************************************************************************)
(* Inputs                                                                  *)
(***************************************************************************)
Str_feat == <<"f","e","a","t">>
Str_fix == <<"f","i","x">>
Str_chore == <<"c","h","o","r","e">>
Str_banana == <<"b","a","n","a","n","a">>
Str_non_existent == <<"n","o","n","_","e","x","i","s","t","e","n","t">>
Str_custom == <<"c","u","s","t","o","m">>
Str_FEAT == <<"F","E","A","T">>
Str_Feat == <<"F","e","a","t">>
Str_Fix == <<"F","i","x">>
Str_feat_space == <<"f","e","a","t"," ">>
Str_fix_bang == <<"f","i","x","!">>

KnownNames == {Serialized[v] : v \in EnabledVariants}

\* Every way of writing a name in upper and lower case.
RECURSIVE CaseVariants(_)
CaseVariants(s) ==
    IF s = <<>> THEN {<<>>}
    ELSE {<<c>> \o r : c \in {Head(s), to_ascii_uppercase(Head(s))},
                       r \in CaseVariants(Tail(s))}

TokAlphabet == {"f", "i", "x", "F", "X", "_", " "}

RECURSIVE TokensOfLen(_)
TokensOfLen(n) ==
    IF n = 0 THEN {<<>>}
    ELSE {Append(s, c) : s \in TokensOfLen(n - 1), c \in TokAlphabet}

ShortTokens == UNION {TokensOfLen(n) : n \in 0..MaxTokLen}

\* Tokens handed to the classifier on its own.
Tokens ==
    UNION {CaseVariants(n) : n \in KnownNames}
    \cup ShortTokens
    \cup {Str_banana, Str_non_existent, Str_custom, Custom, Str_feat_space, Str_fix_bang}

\* Type tokens of the commits handed to the decision engine.
CommitTokens ==
    KnownNames
    \cup {<<>>, Str_banana, Str_custom, Str_FEAT, Str_Feat, Str_Fix, Str_fix_bang}

Components == 0..MaxComp

Versions == [major : Components, minor : Components, patch : Components]

Commits == [ty : CommitTokens, is_breaking_change : BOOLEAN]

NoVersion == VersionNew(0, 0, 0)

NoCommit == [ty |-> <<>>, is_breaking_change |-> FALSE]

NoType == [variant |-> <<>>, raw |-> <<>>]

NoOutcome == [kind |-> "None"]

(***************************************************************************)
(* The classifier on its own                                               *)
(***************************************************************************)
InitClassify ==
    /\ pc = "start"
    /\ ty_ \in Tokens
    /\ classified = NoType
    /\ previous = NoVersion
    /\ current = NoVersion
    /\ commit = NoCommit
    /\ type_ = NoType
    /\ new_candidate = NoVersion
    /\ outcome = NoOutcome

\* ConventionalCommitType::new(ty_)
New ==
    /\ pc = "start"
    /\ classified' = new(ty_)
    /\ pc' = "done"
    /\ UNCHANGED <<ty_, previous, current, commit, type_, new_candidate, outcome>>

NextClassify == New

SpecClassify == InitClassify /\ [][NextClassify]_vars

(***************************************************************************)
(* The decision engine                                                     *)
(***************************************************************************)
Init ==
    /\ pc = "start"
    /\ ty_ = <<>>
    /\ classified = NoType
    /\ previous \in Versions
    /\ current \in Versions
    /\ commit \in Commits
    /\ type_ = NoType
    /\ new_candidate = NoVersion
    /\ outcome = NoOutcome

\* VersionUpdateHandler { previous, current, commit }.get_next_version()
GetNextVersion ==
    /\ pc = "start"
    /\ type_' = From(commit)
    /\ new_candidate' = NewCandidate(previous, commit)
    /\ outcome' = Decide(previous, current, NewCandidate(previous, commit))
    /\ pc' = "done"
    /\ UNCHANGED <<ty_, classified, previous, current, commit>>

Next == GetNextVersion

Spec == Init /\ [][Next]_vars

(***************************************************************************)
(* Vocabulary of the properties                                            *)
(***************************************************************************)
Done == pc = "done"

\* The eleven categories: the lower-case name and the variant it denotes.
KnownCategories ==
    { << <<"b","u","i","l","d">>, Build >>,
      << <<"c","h","o","r","e">>, Chore >>,
      << <<"c","i">>, Ci >>,
      << <<"d","o","c","s">>, Docs >>,
      << <<"f","e","a","t">>, Feat >>,
      << <<"f","i","x">>, Fix >>,
      << <<"p","e","r","f">>, Perf >>,
      << <<"r","e","f","a","c","t","o","r">>, Refactor >>,
      << <<"r","e","v","e","r","t">>, Revert >>,
      << <<"s","t","y","l","e">>, Style >>,
      << <<"t","e","s","t">>, Test >> }

CategoryNames == {k[1] : k \in KnownCategories}

V(major, minor, patch) == [major |-> major, minor |-> minor, patch |-> patch]

\* Precedence of versions: major, then minor, then patch.
Precedes(a, b) ==
    \/ a.major < b.major
    \/ a.major = b.major /\ a.minor < b.minor
    \/ a.major = b.major /\ a.minor = b.minor /\ a.patch < b.patch

AtLeast(a, b) == ~Precedes(a, b)

BreakingFires == commit.is_breaking_change /\ previous.major # 0

(***************************************************************************)
(* Properties of the classifier (SpecClassify)                             *)
(***************************************************************************)
\* C1 as stated: every case variant of a known category name ("Feat", "FEAT",
\* "feat") classifies as that category's variant, never as Custom.
C1_CaseVariantsResolve ==
    Done =>
      \A k \in KnownCategories :
        to_lowercase(ty_) = k[1] => classified = [variant |-> k[2], raw |-> <<>>]

\* C1 as amended: the token is matched as given.  Of the case variants of a
\* known category name only the all-lower-case spelling classifies as that
\* category's variant; every other spelling classifies as Custom carrying the
\* token as given.
C1_ExactMatchOnly ==
    Done =>
      \A k \in KnownCategories :
        to_lowercase(ty_) = k[1] =>
          IF ty_ = k[1]
            THEN classified = [variant |-> k[2], raw |-> <<>>]
            ELSE classified = [variant |-> Custom, raw |-> ty_]

\* "FEAT" has been classified, and is Custom("FEAT").
C1_Witness ==
    /\ Done
    /\ ty_ = <<"F","E","A","T">>
    /\ classified = [variant |-> Custom, raw |-> <<"F","E","A","T">>]

\* C2: classification always yields a value of the enum, a known category's
\* variant or Custom, and a token that is none of the eleven category names
\* yields Custom carrying the token exactly as given.
C2_TotalCustomUnmodified ==
    Done =>
      /\ \/ \E k \in KnownCategories : classified = [variant |-> k[2], raw |-> <<>>]
         \/ classified.variant = Custom
      /\ ty_ \notin CategoryNames => classified = [variant |-> Custom, raw |-> ty_]
      /\ ty_ \in CategoryNames => classified.variant # Custom

\* A token with trailing whitespace has been classified as Custom, unmodified.
C2_Witness ==
    /\ Done
    /\ ty_ = <<"f","e","a","t"," ">>
    /\ classified = [variant |-> Custom, raw |-> <<"f","e","a","t"," ">>]

(***************************************************************************)
(* Properties of the decision engine (Spec)                                *)
(***************************************************************************)
\* C3: with the breaking-change flag set and previous.major # 0 the candidate
\* is (previous.major + 1, 0, 0), whatever the commit type, minor and patch.
C3_BreakingPrecedence ==
    Done /\ commit.is_breaking_change /\ previous.major # 0
      => new_candidate = V(previous.major + 1, 0, 0)

\* A breaking commit of a custom type on 1.2.3 gives candidate 2.0.0.
C3_Witness ==
    /\ Done
    /\ previous = V(1, 2, 3)
    /\ commit = [ty |-> <<"b","a","n","a","n","a">>, is_breaking_change |-> TRUE]
    /\ type_.variant = Custom
    /\ new_candidate = V(2, 0, 0)

\* C4: a Fix commit for which the breaking-change rule does not fire gives the
\* candidate (previous.major, previous.minor, previous.patch + 1).
C4_FixBump ==
    Done /\ type_ = [variant |-> Fix, raw |-> <<>>] /\ ~BreakingFires
      => new_candidate = V(previous.major, previous.minor, previous.patch + 1)

\* fix on 1.2.3 gives candidate 1.2.4.
C4_Witness ==
    /\ Done
    /\ previous = V(1, 2, 3)
    /\ commit = [ty |-> <<"f","i","x">>, is_breaking_change |-> FALSE]
    /\ new_candidate = V(1, 2, 4)

\* C5: a Feat commit for which the breaking-change rule does not fire gives the
\* candidate (previous.major, previous.minor + 1, 0).
C5_FeatBump ==
    Done /\ type_ = [variant |-> Feat, raw |-> <<>>] /\ ~BreakingFires
      => new_candidate = V(previous.major, previous.minor + 1, 0)

\* feat on 1.2.3 gives candidate 1.3.0: the patch component was reset.
C5_Witness ==
    /\ Done
    /\ previous = V(1, 2, 3)
    /\ commit = [ty |-> <<"f","e","a","t">>, is_breaking_change |-> FALSE]
    /\ new_candidate = V(1, 3, 0)

\* C6: a commit of any type other than Fix and Feat (the nine other categories
\* and every Custom token) for which the breaking-change rule does not fire
\* leaves the candidate equal to previous.
C6_NoOpTypes ==
    Done /\ type_ \notin {[variant |-> Fix, raw |-> <<>>], [variant |-> Feat, raw |-> <<>>]}
         /\ ~BreakingFires
      => new_candidate = previous

\* perf on 1.2.3 gives candidate 1.2.3.
C6_Witness ==
    /\ Done
    /\ previous = V(1, 2, 3)
    /\ commit = [ty |-> <<"p","e","r","f">>, is_breaking_change |-> FALSE]
    /\ type_ = [variant |-> Perf, raw |-> <<>>]
    /\ new_candidate = V(1, 2, 3)

\* C7: when current = previous the outcome is Patch carrying the candidate,
\* never ManualChanged or VersionTooWeak.
C7_NoManualEditPatch ==
    Done /\ current = previous
      => outcome = [kind |-> "Patch", new |-> new_candidate]

\* An unedited 1.2.3 with a breaking feat is patched to 2.0.0.
C7_Witness ==
    /\ Done
    /\ previous = V(1, 2, 3)
    /\ current = V(1, 2, 3)
    /\ commit = [ty |-> <<"f","e","a","t">>, is_breaking_change |-> TRUE]
    /\ outcome = [kind |-> "Patch", new |-> V(2, 0, 0)]

\* C8: when current # previous the outcome is ManualChanged{previous, current}
\* exactly when current >= candidate, and otherwise
\* VersionTooWeak{expected_at_least: candidate, actual: current}.
C8_ManualEditValidation ==
    Done /\ current # previous
      => IF AtLeast(current, new_candidate)
           THEN outcome = [kind |-> "ManualChanged",
                           previous |-> previous, current |-> current]
           ELSE outcome = [kind |-> "VersionUpdateTooWeak",
                           expected_at_least |-> new_candidate, actual |-> current]

\* 1.2.3 edited to 1.2.4 under a feat is too weak: at least 1.3.0 is expected.
C8_Witness ==
    /\ Done
    /\ previous = V(1, 2, 3)
    /\ current = V(1, 2, 4)
    /\ commit = [ty |-> <<"f","e","a","t">>, is_breaking_change |-> FALSE]
    /\ outcome = [kind |-> "VersionUpdateTooWeak",
                  expected_at_least |-> V(1, 3, 0), actual |-> V(1, 2, 4)]

\* C9: with previous.major = 0 the breaking-change flag changes nothing: set or
\* unset, Fix gives patch + 1, Feat gives minor + 1 with patch 0, any other
\* type leaves previous unchanged, and major stays 0.
C9_PreOneFallsThrough ==
    Done /\ previous.major = 0
      => /\ new_candidate.major = 0
         /\ new_candidate =
              IF type_ = [variant |-> Fix, raw |-> <<>>]
                THEN V(0, previous.minor, previous.patch + 1)
              ELSE IF type_ = [variant |-> Feat, raw |-> <<>>]
                THEN V(0, previous.minor + 1, 0)
              ELSE previous

\* A breaking feat on 0.1.2 gives candidate 0.2.0.
C9_Witness ==
    /\ Done
    /\ previous = V(0, 1, 2)
    /\ commit = [ty |-> <<"f","e","a","t">>, is_breaking_change |-> TRUE]
    /\ new_candidate = V(0, 2, 0)

\* C10: the candidate is never below previous; a Patch carries new >= previous;
\* a ManualChanged has current strictly above previous; a manual edit below
\* previous is VersionTooWeak whatever the commit type.
C10_NeverBelowPrevious ==
    Done =>
      /\ AtLeast(new_candidate, previous)
      /\ outcome.kind = "Patch" => AtLeast(outcome.new, previous)
      /\ outcome.kind = "ManualChanged" =>
           /\ outcome.previous = previous
           /\ outcome.current = current
           /\ Precedes(previous, current)
      /\ Precedes(current, previous) => outcome.kind = "VersionUpdateTooWeak"

\* 1.2.3 edited down to 0.3.0 under a chore is too weak.
C10_Witness ==
    /\ Done
    /\ previous = V(1, 2, 3)
    /\ current = V(0, 3, 0)
    /\ commit = [ty |-> <<"c","h","o","r","e">>, is_breaking_change |-> FALSE]
    /\ outcome = [kind |-> "VersionUpdateTooWeak",
                  expected_at_least |-> V(1, 2, 3), actual |-> V(0, 3, 0)]

====
